---- MODULE Spec2Model ----
(***************************************************************************)
(* A model of gdp ("Ghosts of Departed Proofs"): the proof tokens of       *)
(* src/src/proof.rs, the propositional combinators of src/src/prop.rs,     *)
(* the naming operation of src/src/named.rs and the JWT example of         *)
(* src/tests/jwt.rs.                                                       *)
(***************************************************************************)
EXTENDS Integers, Sequences, FiniteSets, Bags, TLC

VARIABLES
    held,       \* the Proof values the caller holds, a bag of their propositions
    calls,      \* how many calls the caller of the proof core has made (Call)
    invoked,    \* per closure kind: how many times a closure of it has run
    panicked,   \* a closure that never returns was run: the call did not return
    last,       \* the last combinator call: its name, closures and result
    stack,      \* the calls of name whose continuation is running, innermost last
    nextBrand,  \* the brand the next call of name introduces
    wrappers,   \* the Named values alive, a bag (clones are separate values)
    names,      \* the Name values alive
    fruns,      \* per call of name: how many times its continuation was invoked
    ret,        \* the last return of name: what f returned and what name returned
    inp,        \* the request's inputs: the token and the two keys
    pc,         \* where the running request handler stands
    handler,    \* the handler that runs, or ran last: "list" or "delete"
    chain,      \* the Result the handler's combinator chain holds so far
    jwt,        \* the JwtOf value the last successful Jwt::new returned
    trace,      \* the calls the handler made, in order
    results     \* per handler: what it returned last

propVars == <<held, calls, calls, invoked, panicked, last>>
nameVars == <<stack, nextBrand, wrappers, names, fruns, ret>>
jwtVars == <<inp, pc, handler, chain, jwt, trace, results>>
vars == <<held, calls, invoked, panicked, last, stack, nextBrand, wrappers, names, fruns, ret,
          inp, pc, handler, chain, jwt, trace, results>>

(***************************************************************************)
(* Bounds of the model.                                                    *)
(***************************************************************************)
\* the caller holds at most this many proofs
MaxHeld == 3
\* the largest proposition the caller writes down (number of constructors)
MaxSize == 5
\* the combinator calls the caller makes in one run
MaxSteps == 5
\* the calls of name in one run
MaxCalls == 3
\* how deep calls of name nest
MaxDepth == 2
\* the Named values alive at once
MaxCopies == 3
\* the longest "roles" array of a token
MaxRoles == 2

(***************************************************************************)
(* prop.rs: the proposition shapes.  A proposition is a type; it is        *)
(* modelled as a term.  Atom stands for a proposition a consumer defines.  *)
(***************************************************************************)
True == <<"True">>
False == <<"False">>
Atom == <<"Atom">>
And(P, Q) == <<"And", P, Q>>
Or(P, Q) == <<"Or", P, Q>>
Not(P) == <<"Not", P>>
Impl(P, Q) == <<"Impl", P, Q>>

Tag(P) == P[1]

\* P: Copy.  True, False, And, Or and Not derive Copy (And, Or and Not when
\* their parts are Copy); Impl derives nothing, and neither do the
\* propositions a consumer defines
RECURSIVE IsCopy(_)
IsCopy(P) ==
    CASE Tag(P) \in {"True", "False"} -> TRUE
      [] Tag(P) \in {"And", "Or"} -> IsCopy(P[2]) /\ IsCopy(P[3])
      [] Tag(P) = "Not" -> IsCopy(P[2])
      [] OTHER -> FALSE

RECURSIVE Size(_)
Size(P) ==
    IF Tag(P) \in {"True", "False", "Atom"} THEN 1
    ELSE IF Tag(P) = "Not" THEN 1 + Size(P[2])
    ELSE 1 + Size(P[2]) + Size(P[3])

\* the meaning of a proposition when the consumer's atom has truth value a
RECURSIVE Holds(_, _)
Holds(P, a) ==
    CASE Tag(P) = "True" -> TRUE
      [] Tag(P) = "False" -> FALSE
      [] Tag(P) = "Atom" -> a
      [] Tag(P) = "And" -> Holds(P[2], a) /\ Holds(P[3], a)
      [] Tag(P) = "Or" -> Holds(P[2], a) \/ Holds(P[3], a)
      [] Tag(P) = "Not" -> ~Holds(P[2], a)
      [] Tag(P) = "Impl" -> Holds(P[2], a) => Holds(P[3], a)

\* P follows from nothing: it is true whatever the atom is
Valid(P) == \A a \in BOOLEAN : Holds(P, a)

\* the propositions a caller names as explicit type arguments: ones it has
\* no proof of (True is obtained from t)
TypeArgs == {False, Atom}

(***************************************************************************)
(* proof.rs: Proof<P> is a zero-size value indexed by P; axiom conjures it. *)
(***************************************************************************)
Proof(P) == [proves |-> P]

axiom(P) == Proof(P)

One(x) == SetToBag({x})

\* #[derive(Clone, Copy)] on Proof<P>: a proof of a Copy proposition is
\* copied when it is passed by value, any other proof is moved.  Moved(used)
\* is what passing proofs of `used` by value takes from the holder
RECURSIVE Moved(_)
Moved(used) ==
    IF used = <<>> THEN EmptyBag
    ELSE (IF IsCopy(Head(used)) THEN EmptyBag ELSE One(Head(used)))
             (+) Moved(Tail(used))

\* the holder receives proofs of `props`; copies of a Copy proof are one value
RECURSIVE Gain(_, _)
Gain(h, props) ==
    IF props = <<>> THEN h
    ELSE LET P == Head(props)
         IN  Gain(IF IsCopy(P) /\ BagIn(P, h) THEN h ELSE h (+) One(P), Tail(props))

(***************************************************************************)
(* named.rs.  A brand is a lifetime; it is modelled as a number.  Static   *)
(* is the lifetime 'static; a call of name introduces the next brand, one  *)
(* its continuation is universally quantified over (for<'name>).           *)
(***************************************************************************)
Static == 0

Values == {"tokA", "tokB"}

\* gen<'name>() -> Name<'name>: the lifetime is the caller's choice.  `site`
\* records who made the call; the type Name<'name> does not.
gen(b, site) == [brand |-> b, site |-> site]

\* the tuple struct Named<'name, V>(Name<'name>, V)
Named(n, v) == [n |-> n, v |-> v]

\* #[derive(Clone)] on Named
Named_clone(self) == Named(self.n, self.v)

\* Named::name(self) -> Name<'name>
Named_name(self) == self.n

\* Deref::deref(&self) -> &V
deref(self) == self.v

\* a faulty name: it builds the wrapper and never invokes f
name_call_skips_f(value, b) == [arg |-> Named(gen(b, "name"), value), runs |-> 0]

\* name(value, f): the one invocation f(Named(gen(), value)), at brand b
name_call(value, b) == [arg |-> Named(gen(b, "name"), value), runs |-> 1]

\* name returns the value of the call f(..)
name_return(fret) == fret

(***************************************************************************)
(* tests/jwt.rs: JSON values, tokens and keys.                             *)
(***************************************************************************)
\* serde_json values; Absent is the None of Value::get
Absent == [t |-> "absent"]
Str(x) == [t |-> "str", s |-> x]
Bool(x) == [t |-> "bool", b |-> x]
Arr(x) == [t |-> "arr", a |-> x]

\* Value::as_str, Value::as_bool, Value::as_array as Options
Some(x) == [some |-> TRUE, val |-> x]
None == [some |-> FALSE]
Ok(x) == [ok |-> TRUE, val |-> x]
Err(e) == [ok |-> FALSE, err |-> e]

\* a token string: whether it parses as header.claims.signature, the "from"
\* member of its header, and the "roles" and "admin" members of its claims
Token(w, from, roles, admin) ==
    [wellFormed |-> w, from |-> from, claims |-> [roles |-> roles, admin |-> admin]]

\* Key<A, I>(A, I) with the verifying algorithm DummyAlgo(String)
Key(algo, issuer) == [algo |-> algo, issuer |-> issuer]

Admin == "admin"

\* the propositions of the example, indexed by the brand of the named token
IssuedBy(b, I) == <<"IssuedBy", b, I>>
HasRole(b, R) == <<"HasRole", b, R>>
CanViewApps(b) == <<"CanViewApps", b>>
CanDeleteApp(b) == <<"CanDeleteApp", b>>

JwtOf(n, token) == [name |-> n, token |-> token]

\* a faulty verify_bytes: any string in "from" is accepted
verify_bytes_any_issuer(algo, from) ==
    IF from.t # "str" THEN Err("InvalidSignature") ELSE Ok(TRUE)

\* DummyAlgo::verify_bytes: the header's "from" must be a string; the
\* signature is good when it equals the algorithm's string
verify_bytes(algo, from) ==
    IF from.t # "str" THEN Err("InvalidSignature") ELSE Ok(from.s = algo)

\* the jwt crate's verify_with_key as Jwt::new uses it: the token must parse
\* and verify_bytes must return Ok(true)
verify_with_key(token, algo) ==
    IF ~token.wellFormed THEN Err("Format")
    ELSE LET v == verify_bytes(algo, token.from)
         IN  IF ~v.ok THEN v
             ELSE IF v.val THEN Ok(token) ELSE Err("InvalidSignature")

\* a faulty Jwt::new: the result of the verification is ignored
Jwt_new_unverified(key, token_str) ==
    Ok(<<JwtOf(Named_name(token_str), deref(token_str)),
         axiom(IssuedBy(Named_name(token_str).brand, key.issuer))>>)

\* Jwt::new: validate the named token with the key
Jwt_new(key, token_str) ==
    LET v == verify_with_key(deref(token_str), key.algo)
    IN  IF ~v.ok THEN v
        ELSE Ok(<<JwtOf(Named_name(token_str), v.val),
                  axiom(IssuedBy(Named_name(token_str).brand, key.issuer))>>)

\* a faulty has_azure_role: any non-empty "roles" array grants the role
has_azure_role_any_member(j, role, p) ==
    LET roles == j.token.claims.roles
    IN  IF roles.t = "absent" THEN None
        ELSE IF roles.t # "arr" THEN None
        ELSE IF Len(roles.a) > 0
             THEN Some(axiom(HasRole(j.name.brand, role)))
             ELSE None

\* has_azure_role: "roles" is an array with the role's name among its strings
has_azure_role(j, role, p) ==
    LET roles == j.token.claims.roles
    IN  IF roles.t = "absent" THEN None
        ELSE IF roles.t # "arr" THEN None
        ELSE IF \E i \in DOMAIN roles.a :
                    roles.a[i].t = "str" /\ roles.a[i].s = role
             THEN Some(axiom(HasRole(j.name.brand, role)))
             ELSE None

\* has_okta_role: the claim named like the role is the boolean true
has_okta_role(j, role, p) ==
    LET c == j.token.claims[role]
    IN  IF c.t = "absent" THEN None
        ELSE IF c.t # "bool" THEN None
        ELSE IF c.b THEN Some(axiom(HasRole(j.name.brand, role)))
        ELSE None

\* permissions::can_view_apps and can_delete_app
can_view_apps(p) == axiom(CanViewApps(p.proves[2][2]))

can_delete_app(p) == axiom(CanDeleteApp(p.proves[2]))

delete_app(p) == "Nuke it to the ground"

list_apps(p) == <<"app1", "app2">>

\* a faulty role step: an absent role still yields Ok
with_role_unchecked(j, r) == Ok(<<j, axiom(HasRole(j.name.brand, Admin))>>)

\* try_to_delete_app: has_*_role(..).map(|p| (jwt, p)).ok_or_else(|| NoRole)
with_role(j, r) == IF r.some THEN Ok(<<j, r.val>>) ELSE Err("NoRole")

\* .map_err(|_| Error::JwtParseFailed)
map_err_parse_failed(r) == IF r.ok THEN r ELSE Err("JwtParseFailed")

(***************************************************************************)
(* The closures a caller hands to implication, intro_not and Or::elim.     *)
(* A closure is a value of type FnOnce(Proof<P>) -> Proof<Q>; its kind is  *)
(* its body:                                                               *)
(*   "id"       |p| p              (P and Q are the same proposition)      *)
(*   "capture"  |_| q              (q a proof the caller holds; it is      *)
(*              captured by value, so moved unless Copy)                   *)
(*   "absurd"   |p| p.absurd()     (P is False)                            *)
(*   "diverge"  |_| panic!() or |_| loop {}   (any P and Q: the body has   *)
(*              the never type, which coerces to Proof<Q>)                 *)
(***************************************************************************)
ClosureKinds == {"id", "capture", "absurd", "diverge"}

Closure(k) == [kind |-> k]

\* the closure is accepted by the compiler at type FnOnce(Proof<P>) -> Proof<Q>
TypeChecks(c, P, Q, have) ==
    CASE c.kind = "id" -> P = Q
      [] c.kind = "capture" -> Q \in have
      [] c.kind = "absurd" -> P = False
      [] c.kind = "diverge" -> TRUE

\* the result of a combinator that takes closures: the proof it returns and
\* the closures it ran, in order
Returned(p, ran) == [proof |-> p, ran |-> ran]

(***************************************************************************)
(* prop.rs: the combinators.  Every one of them ignores the values it is   *)
(* given and returns axiom() at its return type.                           *)
(***************************************************************************)
t == axiom(True)

non_contra(self) == axiom(Not(And(self.proves, Not(self.proves))))

and(p, q) == axiom(And(p.proves, q.proves))

or_l(p, Q) == axiom(Or(p.proves, Q))

or_r(P, q) == axiom(Or(P, q.proves))

implication(P, Q, f) == Returned(axiom(Impl(P, Q)), <<>>)

intro_not(P, f) == Returned(axiom(Not(P)), <<>>)

elim_l(self) == axiom(self.proves[2])

\* a faulty elim_r: it yields the left component
elim_r_swapped(self) == axiom(self.proves[2])

elim_r(self) == axiom(self.proves[3])

And_elim(self) == <<elim_l(self), elim_r(self)>>

\* a faulty Or::elim: it runs the first case closure
Or_elim_runs_case(self, R, caseP, caseQ) == Returned(axiom(R), <<caseP>>)

Or_elim(self, R, caseP, caseQ) == Returned(axiom(R), <<>>)

Impl_elim(self, p) == axiom(self.proves[3])

absurd(self, P) == axiom(P)

(***************************************************************************)
(* The caller: safe code that holds proofs and calls the combinators.      *)
(***************************************************************************)
NoCall == [op |-> "none", closures |-> <<>>, result |-> <<>>]

NoReturn == [id |-> 0, fret |-> "none", ret |-> "none"]

PropIdle ==
    /\ held = EmptyBag
    /\ calls = 0
    /\ invoked = [k \in ClosureKinds |-> 0]
    /\ panicked = FALSE
    /\ last = NoCall

NameIdle ==
    /\ stack = <<>>
    /\ nextBrand = 1
    /\ wrappers = EmptyBag
    /\ names = {}
    /\ fruns = [c \in {} |-> 0]
    /\ ret = NoReturn

NoInput == [token |-> "none"]
NoChain == [ok |-> FALSE, err |-> "none"]
NoJwt == [name |-> "none"]
NoResult == [ok |-> FALSE, err |-> "none"]

JwtIdle ==
    /\ inp = NoInput
    /\ pc = "idle"
    /\ handler = "none"
    /\ chain = NoChain
    /\ jwt = NoJwt
    /\ trace = <<>>
    /\ results = [o \in {"list", "delete"} |-> NoResult]

InitProp == PropIdle /\ NameIdle /\ JwtIdle

Props(proofs) == [i \in DOMAIN proofs |-> proofs[i].proves]

Range(s) == {s[i] : i \in DOMAIN s}

\* the proof a closure of kind k returning Proof<Q> captures by value
Captured(k, Q) == IF k = "capture" THEN <<Q>> ELSE <<>>

\* the caller makes the call `op`, passing proofs of `used` by value (as
\* arguments, or captured in `closures`); the combinator returns `proofs`
\* after running the closures `ran`
Call(op, used, closures, proofs, ran) ==
    LET new == Props(proofs)
        left == held (-) Moved(used)
        after == Gain(left, new)
        stuck == \E i \in DOMAIN ran : ran[i].kind = "diverge"
    IN  /\ ~panicked
        /\ calls < MaxSteps
        /\ \A i \in DOMAIN used : BagIn(used[i], held)
        /\ Moved(used) \sqsubseteq held
        /\ \A i \in DOMAIN new : Size(new[i]) <= MaxSize
        /\ BagCardinality(after) <= MaxHeld
        /\ invoked' = [k \in ClosureKinds |->
                         invoked[k] + Cardinality({i \in DOMAIN ran : ran[i].kind = k})]
        /\ calls' = calls + 1
        /\ panicked' = stuck
        /\ held' = IF stuck THEN left ELSE after
        /\ last' = [op |-> op, closures |-> closures,
                    result |-> IF stuck THEN <<>> ELSE Props(proofs)]
        /\ UNCHANGED <<nameVars, jwtVars>>

T == Call("t", <<>>, <<>>, <<t>>, <<>>)

NonContra ==
    \E P \in BagToSet(held) :
        Call("non_contra", <<P>>, <<>>, <<non_contra(Proof(P))>>, <<>>)

AndIntro ==
    \E P \in BagToSet(held), Q \in BagToSet(held) :
        Call("and", <<P, Q>>, <<>>, <<and(Proof(P), Proof(Q))>>, <<>>)

OrL ==
    \E P \in BagToSet(held), Q \in TypeArgs :
        Call("or_l", <<P>>, <<>>, <<or_l(Proof(P), Q)>>, <<>>)

OrR ==
    \E Q \in BagToSet(held), P \in TypeArgs :
        Call("or_r", <<Q>>, <<>>, <<or_r(P, Proof(Q))>>, <<>>)

Implication ==
    \E P \in TypeArgs, Q \in TypeArgs, k \in ClosureKinds :
        /\ TypeChecks(Closure(k), P, Q, BagToSet(held))
        /\ LET out == implication(P, Q, Closure(k))
           IN  Call("implication", Captured(k, Q), <<k>>, <<out.proof>>, out.ran)

IntroNot ==
    \E P \in TypeArgs, k \in ClosureKinds :
        /\ TypeChecks(Closure(k), P, False, BagToSet(held))
        /\ LET out == intro_not(P, Closure(k))
           IN  Call("intro_not", Captured(k, False), <<k>>, <<out.proof>>, out.ran)

ElimL ==
    \E A \in BagToSet(held) :
        /\ Tag(A) = "And"
        /\ Call("elim_l", <<A>>, <<>>, <<elim_l(Proof(A))>>, <<>>)

ElimR ==
    \E A \in BagToSet(held) :
        /\ Tag(A) = "And"
        /\ Call("elim_r", <<A>>, <<>>, <<elim_r(Proof(A))>>, <<>>)

\* elim is implemented for Proof<And<P, Q>> only when P: Copy and Q: Copy
AndElim ==
    \E A \in BagToSet(held) :
        /\ Tag(A) = "And"
        /\ IsCopy(A[2])
        /\ IsCopy(A[3])
        /\ Call("elim", <<A>>, <<>>, And_elim(Proof(A)), <<>>)

OrElim ==
    \E O \in BagToSet(held), R \in TypeArgs, k1 \in ClosureKinds, k2 \in ClosureKinds :
        /\ Tag(O) = "Or"
        /\ TypeChecks(Closure(k1), O[2], R, BagToSet(held))
        /\ TypeChecks(Closure(k2), O[3], R, BagToSet(held))
        /\ LET out == Or_elim(Proof(O), R, Closure(k1), Closure(k2))
           IN  Call("or_elim", <<O>> \o Captured(k1, R) \o Captured(k2, R), <<k1, k2>>, <<out.proof>>, out.ran)

ImplElim ==
    \E I \in BagToSet(held), P \in BagToSet(held) :
        /\ Tag(I) = "Impl"
        /\ I[2] = P
        /\ Call("impl_elim", <<I, P>>, <<>>, <<Impl_elim(Proof(I), Proof(P))>>, <<>>)

Absurd ==
    \E P \in TypeArgs :
        /\ BagIn(False, held)
        /\ Call("absurd", <<False>>, <<>>, <<absurd(Proof(False), P)>>, <<>>)

NextProp ==
    \/ T
    \/ NonContra
    \/ AndIntro
    \/ OrL
    \/ OrR
    \/ Implication
    \/ IntroNot
    \/ ElimL
    \/ ElimR
    \/ AndElim
    \/ OrElim
    \/ ImplElim
    \/ Absurd

SpecProp == InitProp /\ [][NextProp]_vars

(***************************************************************************)
(* Claims about the proof core.                                            *)
(***************************************************************************)

\* C1: a caller of the public combinators alone cannot forge a proof: every
\* proposition it holds a Proof for follows from nothing (it is true whatever
\* the consumer's atom is), so in particular it never holds Proof<False>;
\* closures that type-check but never return are among the closures it passes.
C1_NoForgery == \A P \in BagToSet(held) : P # False /\ Valid(P)

\* C3: no combinator that takes a closure invokes it: across every call of
\* Or::elim, implication and intro_not the invocation count of every closure
\* is unchanged, and the call returns its proof.
C3_ClosuresNeverInvoked ==
    [][last'.op \in {"or_elim", "implication", "intro_not"} =>
          /\ invoked' = invoked
          /\ ~panicked'
          /\ Len(last'.result) = 1
          /\ BagIn(last'.result[1], held')]_vars

\* C3 witness: Or::elim was called on a disjunction with a closure that would
\* never return, nothing ran, and the proof of R came back.
C3_Witness ==
    /\ last.op = "or_elim"
    /\ "diverge" \in Range(last.closures)
    /\ \A k \in ClosureKinds : invoked[k] = 0
    /\ Len(last.result) = 1
    /\ BagIn(last.result[1], held)

\* C8: conjunction round trip: for proofs p of P and q of Q the caller can
\* pass together, and(p, q).elim_l() proves exactly P, and(p, q).elim_r()
\* proves exactly Q, and, where elim exists (P and Q Copy), and(p, q).elim()
\* is the pair (elim_l, elim_r), left for P, right for Q; an elim that was
\* made returned the two components of a conjunction the caller still holds.
C8_ConjunctionRoundTrip ==
    /\ \A P \in BagToSet(held), Q \in BagToSet(held) :
           Moved(<<P, Q>>) \sqsubseteq held =>
               LET pq == and(Proof(P), Proof(Q))
               IN  /\ pq = Proof(And(P, Q))
                   /\ elim_l(pq) = Proof(P)
                   /\ elim_r(pq) = Proof(Q)
                   /\ (IsCopy(P) /\ IsCopy(Q)) =>
                          /\ And_elim(pq) = <<elim_l(pq), elim_r(pq)>>
                          /\ And_elim(pq) = <<Proof(P), Proof(Q)>>
    /\ last.op = "elim" =>
           /\ Len(last.result) = 2
           /\ BagIn(And(last.result[1], last.result[2]), held)

\* C8 witness: elim was applied to a held conjunction of two different
\* propositions and returned them in order.
C8_Witness ==
    /\ last.op = "elim"
    /\ Len(last.result) = 2
    /\ last.result[1] # last.result[2]
    /\ BagIn(And(last.result[1], last.result[2]), held)
    /\ BagIn(last.result[1], held)
    /\ BagIn(last.result[2], held)

(***************************************************************************)
(* The caller of name: it calls name, and inside the continuation clones   *)
(* the wrapper, takes its name, calls gen, calls name again, and returns.  *)
(***************************************************************************)
ActiveBrands == {stack[i].brand : i \in DOMAIN stack}

\* name(value, f) is called: f is invoked with the wrapper of a fresh brand
NameCall ==
    \E v \in Values :
        LET b == nextBrand
            call == name_call(v, b)
        IN  /\ b <= MaxCalls
            /\ Len(stack) < MaxDepth
            /\ BagCardinality(wrappers) < MaxCopies
            /\ stack' = Append(stack, [brand |-> b, value |-> v])
            /\ nextBrand' = b + 1
            /\ wrappers' = wrappers (+) One(call.arg)
            /\ fruns' = [c \in DOMAIN fruns \cup {b} |->
                           IF c = b THEN call.runs ELSE fruns[c]]
            /\ UNCHANGED <<names, ret, propVars, jwtVars>>

\* inside a continuation: wrapper.clone()
CloneNamed ==
    \E w \in BagToSet(wrappers) :
        /\ BagCardinality(wrappers) < MaxCopies
        /\ wrappers' = wrappers (+) One(Named_clone(w))
        /\ UNCHANGED <<stack, nextBrand, names, fruns, ret, propVars, jwtVars>>

\* inside a continuation: wrapper.name(), which consumes the wrapper
TakeName ==
    \E w \in BagToSet(wrappers) :
        /\ wrappers' = wrappers (-) One(w)
        /\ names' = names \cup {Named_name(w)}
        /\ UNCHANGED <<stack, nextBrand, fruns, ret, propVars, jwtVars>>

\* anywhere: gen(), at a lifetime in scope
Gen ==
    \E b \in {Static} \cup ActiveBrands :
        /\ names' = names \cup {gen(b, "caller")}
        /\ UNCHANGED <<stack, nextBrand, wrappers, fruns, ret, propVars, jwtVars>>

\* the innermost continuation returns r (the value seen through a wrapper, or
\* unit) and name returns; nothing of the brand outlives the call, since the
\* result type cannot mention 'name
NameReturn ==
    \E r \in {"unit"} \cup {deref(w) : w \in BagToSet(wrappers)} :
        /\ stack # <<>>
        /\ LET top == stack[Len(stack)]
               gone == {w \in BagToSet(wrappers) : w.n.brand = top.brand}
           IN  /\ ret' = [id |-> top.brand, fret |-> r, ret |-> name_return(r)]
               /\ stack' = SubSeq(stack, 1, Len(stack) - 1)
               /\ wrappers' = [w \in BagToSet(wrappers) \ gone |-> wrappers[w]]
               /\ names' = {n \in names : n.brand # top.brand}
        /\ UNCHANGED <<nextBrand, fruns, propVars, jwtVars>>

NextName ==
    \/ NameCall
    \/ CloneNamed
    \/ TakeName
    \/ Gen
    \/ NameReturn

InitName == PropIdle /\ NameIdle /\ JwtIdle

SpecName == InitName /\ [][NextName]_vars

(***************************************************************************)
(* Claims about naming.                                                    *)
(***************************************************************************)

\* C9: brand distinctness: the calls of name in progress all have different
\* brands, and every Name whose brand is that of a call of name is the name
\* that call generated (or a clone of it): no public operation, gen included,
\* yields another name of an existing brand.
C9_BrandDistinctness ==
    /\ \A i \in DOMAIN stack, j \in DOMAIN stack :
           i # j => stack[i].brand # stack[j].brand
    /\ \A w \in BagToSet(wrappers) : w.n.site = "name"
    /\ \A n \in names : n.brand \in ActiveBrands => n.site = "name"

\* C10: name(value, f) invokes f exactly once, with a wrapper that dereferences
\* to the given value, and returns what f returned; taking the name of a
\* wrapper yields its brand and leaves the value seen through clones as it was.
C10_NameCallsContinuationOnce ==
    /\ \A c \in DOMAIN fruns : fruns[c] = 1
    /\ DOMAIN fruns = 1 .. (nextBrand - 1)
    /\ \A w \in BagToSet(wrappers) :
           /\ \E i \in DOMAIN stack :
                  /\ stack[i].brand = w.n.brand
                  /\ deref(w) = stack[i].value
           /\ Named_name(w).brand = w.n.brand
           /\ deref(Named_clone(w)) = deref(w)
    /\ ret.ret = ret.fret
    /\ ret.id # 0 => ret.ret \in Values \cup {"unit"}

\* C10 witness: a call of name has returned the value its continuation read
\* through the wrapper, and in a call in progress the name of one wrapper
\* was taken while a clone of it is still alive.
C10_Witness ==
    /\ ret.id # 0
    /\ ret.fret \in Values
    /\ \E w \in BagToSet(wrappers) : w.n \in names /\ deref(w) \in Values

(***************************************************************************)
(* tests/jwt.rs: the two request handlers, step by step.                   *)
(***************************************************************************)
Elems == {Str("admin"), Str("user"), Bool(TRUE)}

Arrays == UNION {[1 .. n -> Elems] : n \in 0 .. MaxRoles}

RolesClaims == {Absent, Str("admin")} \cup {Arr(a) : a \in Arrays}

AdminClaims == {Absent, Bool(TRUE), Bool(FALSE), Str("true")}

FromHeaders == {Absent, Bool(TRUE), Str("azure"), Str("okta"), Str("fake")}

KeyStrs == {"azure", "okta"}

Tokens ==
    {Token(TRUE, f, r, a) : f \in FromHeaders, r \in RolesClaims, a \in AdminClaims}
        \cup {Token(FALSE, Absent, Absent, Absent)}

Inputs ==
    {[token |-> tk, azure_key |-> Key(a, "Azure"), okta_key |-> Key(o, "Okta")] :
        tk \in Tokens, a \in KeyStrs, o \in KeyStrs}

InitJwt ==
    /\ PropIdle
    /\ NameIdle
    /\ inp \in Inputs
    /\ pc = "idle"
    /\ handler = "none"
    /\ chain = NoChain
    /\ jwt = NoJwt
    /\ trace = <<>>
    /\ results = [o \in {"list", "delete"} |-> NoResult]

Event(f, issuer, ok, b) == [f |-> f, issuer |-> issuer, ok |-> ok, brand |-> b]

\* the closure's parameter token_str
TokenStr == CHOOSE w \in BagToSet(wrappers) : TRUE

Brand == stack[Len(stack)].brand

\* try_to_list_apps or try_to_delete_app is called: name(&*token_str, |token_str| ..)
Start ==
    \E h \in {"list", "delete"} :
        LET b == nextBrand
            call == name_call(inp.token, b)
        IN  /\ pc = "idle"
            /\ b <= MaxCalls
            /\ stack' = Append(stack, [brand |-> b, value |-> inp.token])
            /\ nextBrand' = b + 1
            /\ wrappers' = One(call.arg)
            /\ fruns' = [c \in DOMAIN fruns \cup {b} |->
                           IF c = b THEN call.runs ELSE fruns[c]]
            /\ names' = {}
            /\ held' = EmptyBag
            /\ handler' = h
            /\ pc' = "azure_new"
            /\ chain' = NoChain
            /\ jwt' = NoJwt
            /\ trace' = <<>>
            /\ UNCHANGED <<inp, results, ret, calls, invoked, panicked, last>>

\* Jwt::new(&azure_key, token_str.clone()), then .map(or_l) (list), which
\* moves the IssuedBy proof into the disjunction, or .map_err(JwtParseFailed)
\* (delete)
AzureNew ==
    /\ pc = "azure_new"
    /\ LET r == Jwt_new(inp.azure_key, Named_clone(TokenStr))
       IN  /\ trace' = Append(trace, Event("Jwt::new", "Azure", r.ok, Brand))
           /\ IF r.ok
              THEN /\ jwt' = r.val[1]
                   /\ names' = names \cup {r.val[1].name}
                   /\ IF handler = "delete"
                      THEN /\ chain' = map_err_parse_failed(r)
                           /\ held' = held (+) One(r.val[2].proves)
                           /\ pc' = "azure_role"
                      ELSE LET p == or_l(r.val[2], IssuedBy(Brand, "Okta"))
                           IN  /\ chain' = Ok(p)
                               /\ held' = held (+) One(p.proves)
                               /\ pc' = "gate"
              ELSE /\ chain' = IF handler = "delete" THEN map_err_parse_failed(r) ELSE r
                   /\ pc' = "okta_new"
                   /\ UNCHANGED <<jwt, names, held>>
    /\ UNCHANGED <<inp, handler, results, stack, nextBrand, wrappers, fruns, ret,
                   calls, invoked, panicked, last>>

\* .and_then(|(jwt, p)| has_azure_role(&jwt, Admin, p).map(..).ok_or_else(..)):
\* the IssuedBy proof is moved into the role check
AzureRole ==
    /\ pc = "azure_role"
    /\ LET r == has_azure_role(jwt, Admin, chain.val[2])
           c == with_role(jwt, r)
       IN  /\ trace' = Append(trace, Event("has_azure_role", "Azure", r.some, jwt.name.brand))
           /\ chain' = c
           /\ held' = (held (-) One(chain.val[2].proves))
                          (+) (IF c.ok THEN One(c.val[2].proves) ELSE EmptyBag)
           /\ pc' = IF c.ok THEN "gate" ELSE "okta_new"
    /\ UNCHANGED <<inp, handler, jwt, results, nameVars, calls, invoked, panicked, last>>

\* .or_else(|_| Jwt::new(&okta_key, token_str) ..): token_str is moved
OktaNew ==
    /\ pc = "okta_new"
    /\ LET r == Jwt_new(inp.okta_key, TokenStr)
       IN  /\ trace' = Append(trace, Event("Jwt::new", "Okta", r.ok, Brand))
           /\ wrappers' = EmptyBag
           /\ IF r.ok
              THEN /\ jwt' = r.val[1]
                   /\ names' = names \cup {r.val[1].name}
                   /\ IF handler = "delete"
                      THEN /\ chain' = map_err_parse_failed(r)
                           /\ held' = held (+) One(r.val[2].proves)
                           /\ pc' = "okta_role"
                      ELSE LET p == or_r(IssuedBy(Brand, "Azure"), r.val[2])
                           IN  /\ chain' = Ok(p)
                               /\ held' = held (+) One(p.proves)
                               /\ pc' = "gate"
              ELSE /\ chain' = IF handler = "delete" THEN map_err_parse_failed(r) ELSE r
                   /\ pc' = "gate"
                   /\ UNCHANGED <<jwt, names, held>>
    /\ UNCHANGED <<inp, handler, results, stack, nextBrand, fruns, ret,
                   calls, invoked, panicked, last>>

\* .and_then(|(jwt, p)| has_okta_role(&jwt, Admin, p).map(..).ok_or_else(..))
OktaRole ==
    /\ pc = "okta_role"
    /\ LET r == has_okta_role(jwt, Admin, chain.val[2])
           c == with_role(jwt, r)
       IN  /\ trace' = Append(trace, Event("has_okta_role", "Okta", r.some, jwt.name.brand))
           /\ chain' = c
           /\ held' = (held (-) One(chain.val[2].proves))
                          (+) (IF c.ok THEN One(c.val[2].proves) ELSE EmptyBag)
           /\ pc' = "gate"
    /\ UNCHANGED <<inp, handler, jwt, results, nameVars, calls, invoked, panicked, last>>

\* .map_err(|_| Error::JwtParseFailed)?, then the permission proof, made from
\* the chain's proof and moved into the business function; the closure
\* returns, and so does name, with no proof left
Gate ==
    /\ pc = "gate"
    /\ LET final == map_err_parse_failed(chain)
           p == IF handler = "delete" THEN can_delete_app(final.val[2])
                ELSE can_view_apps(final.val)
           out == IF ~final.ok THEN final
                  ELSE IF handler = "delete" THEN Ok(delete_app(p))
                  ELSE Ok(list_apps(p))
       IN  /\ trace' = IF ~final.ok THEN trace
                       ELSE Append(trace, Event(IF handler = "delete" THEN "delete_app"
                                                ELSE "list_apps",
                                                "none", TRUE, p.proves[2]))
           /\ held' = EmptyBag
           /\ ret' = [id |-> Brand, fret |-> out, ret |-> name_return(out)]
           /\ results' = [results EXCEPT ![handler] = name_return(out)]
    /\ stack' = SubSeq(stack, 1, Len(stack) - 1)
    /\ wrappers' = EmptyBag
    /\ names' = {}
    /\ pc' = "idle"
    /\ UNCHANGED <<inp, handler, chain, jwt, nextBrand, fruns, calls, invoked, panicked, last>>

NextJwt ==
    \/ Start
    \/ AzureNew
    \/ AzureRole
    \/ OktaNew
    \/ OktaRole
    \/ Gate

SpecJwt == InitJwt /\ [][NextJwt]_vars

(***************************************************************************)
(* Claims about the request handlers.                                      *)
(***************************************************************************)
\* a key verifies a token that parses and whose header names the key's issuer
\* string in "from"
AzureVerifies == inp.token.wellFormed /\ inp.token.from = Str(inp.azure_key.algo)

OktaVerifies == inp.token.wellFormed /\ inp.token.from = Str(inp.okta_key.algo)

\* the "roles" claim is an array containing the string "admin"
AzureAdmin ==
    /\ inp.token.claims.roles.t = "arr"
    /\ Str("admin") \in Range(inp.token.claims.roles.a)

\* the "admin" claim is the boolean true
OktaAdmin == inp.token.claims.admin = Bool(TRUE)

Apps == <<"app1", "app2">>

Nuked == "Nuke it to the ground"

Finished(h) == pc = "idle" /\ handler = h

Business == {"delete_app", "list_apps"}

Calls(f) == {i \in DOMAIN trace : trace[i].f = f}

\* C2: for a well-formed token that only the Azure key verifies and whose
\* roles lack "admin", try_to_delete_app returns Err(NoRole) and
\* try_to_list_apps returns the two apps.
C2_NoRoleError ==
    (inp.token.wellFormed /\ AzureVerifies /\ ~OktaVerifies /\ ~AzureAdmin) =>
        /\ Finished("delete") => results["delete"] = Err("NoRole")
        /\ Finished("list") => results["list"] = Ok(Apps)

\* C4: a business function is reached only after its checks succeeded on the
\* same named token: delete_app after a successful Jwt::new and a successful
\* role check of the same issuer, list_apps after a successful Jwt::new; on
\* a failing path neither is called, and at most one call is made per request.
C4_GatedByChecks ==
    /\ \A i \in Calls("delete_app") :
           /\ handler = "delete"
           /\ \E j \in 1 .. i - 1, k \in 1 .. i - 1 :
                  /\ j < k
                  /\ trace[j].f = "Jwt::new"
                  /\ trace[j].ok
                  /\ trace[k].f = (IF trace[j].issuer = "Azure" THEN "has_azure_role"
                                   ELSE "has_okta_role")
                  /\ trace[k].issuer = trace[j].issuer
                  /\ trace[k].ok
                  /\ trace[j].brand = trace[i].brand
                  /\ trace[k].brand = trace[i].brand
                  /\ (trace[j].issuer = "Azure" => AzureVerifies /\ AzureAdmin)
                  /\ (trace[j].issuer = "Okta" => OktaVerifies /\ OktaAdmin)
    /\ \A i \in Calls("list_apps") :
           /\ handler = "list"
           /\ \E j \in 1 .. i - 1 :
                  /\ trace[j].f = "Jwt::new"
                  /\ trace[j].ok
                  /\ trace[j].brand = trace[i].brand
                  /\ (trace[j].issuer = "Azure" => AzureVerifies)
                  /\ (trace[j].issuer = "Okta" => OktaVerifies)
    /\ Cardinality(Calls("delete_app") \cup Calls("list_apps")) <= 1
    /\ \A h \in {"list", "delete"} :
           (Finished(h) /\ ~results[h].ok) =>
               Calls("delete_app") \cup Calls("list_apps") = {}
    /\ pc # "idle" => Calls("delete_app") \cup Calls("list_apps") = {}
    /\ \A P \in BagToSet(held) :
           /\ Tag(P) = "IssuedBy" =>
                  \E j \in Calls("Jwt::new") :
                      trace[j].ok /\ trace[j].issuer = P[3] /\ trace[j].brand = P[2]
           /\ Tag(P) = "HasRole" =>
                  \E k \in Calls("has_azure_role") \cup Calls("has_okta_role") :
                      trace[k].ok /\ trace[k].brand = P[2] /\ P[3] = Admin
           /\ Tag(P) = "Or" =>
                  \E j \in Calls("Jwt::new") :
                      trace[j].ok /\ trace[j].brand = P[2][2]

\* C4 witness: delete_app was called at the end of the longest path: Azure
\* verified, the Azure role was absent, Okta verified, the Okta role held.
C4_Witness ==
    /\ Finished("delete")
    /\ Len(trace) = 5
    /\ trace[5].f = "delete_app"
    /\ trace[2].f = "has_azure_role" /\ ~trace[2].ok
    /\ trace[4].f = "has_okta_role" /\ trace[4].ok

\* C5: a token neither key verifies makes both handlers return
\* Err(JwtParseFailed), whatever its claims.
C5_ParseFailed ==
    (~AzureVerifies /\ ~OktaVerifies) =>
        \A h \in {"list", "delete"} :
            Finished(h) => results[h] = Err("JwtParseFailed")

\* C5 witness: a well-formed token from "fake" with the admin role in both
\* formats was refused by both handlers.
C5_Witness ==
    /\ inp.token.wellFormed
    /\ inp.token.from = Str("fake")
    /\ AzureAdmin
    /\ OktaAdmin
    /\ pc = "idle"
    /\ results["list"] = Err("JwtParseFailed")
    /\ results["delete"] = Err("JwtParseFailed")

\* C6: try_to_delete_app returns Ok("Nuke it to the ground") exactly when the
\* Azure key verifies and "roles" contains "admin", or the Okta key verifies
\* and "admin" is true; and the Okta path is tried after any failure of the
\* Azure path, a failed verification or an absent role.
C6_DeleteExactly ==
    Finished("delete") =>
        /\ results["delete"] = Ok(Nuked) <=>
               \/ AzureVerifies /\ AzureAdmin
               \/ OktaVerifies /\ OktaAdmin
        /\ results["delete"].ok => results["delete"] = Ok(Nuked)
        /\ ~(AzureVerifies /\ AzureAdmin) =>
               \E i \in Calls("Jwt::new") :
                   /\ trace[i].issuer = "Okta"
                   /\ \A j \in 1 .. i - 1 : trace[j].issuer = "Azure"
                   /\ ~trace[i - 1].ok

\* C6 witness: both keys verified the token, the Azure role was absent, and
\* the Okta claim granted the deletion.
C6_Witness ==
    /\ Finished("delete")
    /\ results["delete"] = Ok(Nuked)
    /\ AzureVerifies
    /\ ~AzureAdmin
    /\ OktaVerifies
    /\ OktaAdmin

\* C7: try_to_list_apps returns Ok(["app1", "app2"]) exactly when the Azure key
\* or the Okta key verifies the token, whatever its roles; the Okta key is
\* consulted only when verification with the Azure key failed.
C7_ListExactly ==
    Finished("list") =>
        /\ results["list"] = Ok(Apps) <=> (AzureVerifies \/ OktaVerifies)
        /\ results["list"].ok => results["list"] = Ok(Apps)
        /\ \A i \in Calls("Jwt::new") :
               trace[i].issuer = "Okta" =>
                   /\ i = 2
                   /\ trace[1].f = "Jwt::new"
                   /\ trace[1].issuer = "Azure"
                   /\ ~trace[1].ok
                   /\ ~AzureVerifies
        /\ AzureVerifies => Calls("Jwt::new") = {1}

\* C7 witness: a token with an empty role array that only the Okta key
\* verifies was listed.
C7_Witness ==
    /\ Finished("list")
    /\ results["list"] = Ok(Apps)
    /\ ~AzureVerifies
    /\ OktaVerifies
    /\ inp.token.claims.roles = Arr(<<>>)
    /\ inp.token.claims.admin = Absent

====
